---- MODULE Spec2Model ----
(***************************************************************************)
(* Model of deker/tools/array.py: the pre-allocation memory guard          *)
(* (calculate_total_cells_in_array, convert_human_memory_to_bytes,         *)
(* check_memory) and the identifier generator (generate_uid, get_id).      *)
(*                                                                         *)
(* Python integers are arbitrary precision while TLC's are 32 bit, and     *)
(* numpy's are 64 bit two's complement.  Both are modelled over digit      *)
(* sequences: a magnitude is a little-endian sequence of base-256 digits   *)
(* without leading zero digits, a Python int is a sign and a magnitude,    *)
(* a numpy int64 is exactly eight digits.                                  *)
(***************************************************************************)
EXTENDS Integers, Sequences, FiniteSets, TLC

VARIABLES
    pc,            \* position of the call under study: "call" or "done"
    shape,         \* check_memory / calculate_total_cells_in_array: seq
    itemsize,      \* np.dtype(dtype).itemsize
    mem_limit_from_settings,
    availableRAM,  \* psutil.virtual_memory().available
    freeSwap,      \* psutil.swap_memory().free
    outcome,       \* what the call returned or raised
    memory_limit,  \* convert_human_memory_to_bytes: the argument
    calls,         \* identity generator: the log of finished calls
    callers,       \* two callers doing check_memory then allocate
    atomic         \* callers: check and allocation are one step

vars == <<pc, shape, itemsize, mem_limit_from_settings, availableRAM, freeSwap,
          outcome, memory_limit, calls, callers, atomic>>

-----------------------------------------------------------------------------
(* Arbitrary-precision naturals: little-endian base-256 digit sequences.   *)

Base == 256

RECURSIVE Norm(_)
Norm(m) ==
    IF m = <<>> THEN <<>>
    ELSE IF m[Len(m)] = 0 THEN Norm(SubSeq(m, 1, Len(m) - 1))
    ELSE m

RECURSIVE MagOfNat(_)
MagOfNat(n) == IF n = 0 THEN <<>> ELSE <<n % Base>> \o MagOfNat(n \div Base)

Rest(m) == IF m = <<>> THEN <<>> ELSE Tail(m)
Low(m) == IF m = <<>> THEN 0 ELSE Head(m)

RECURSIVE MagAddC(_, _, _)
MagAddC(a, b, c) ==
    IF a = <<>> /\ b = <<>> THEN (IF c = 0 THEN <<>> ELSE <<c>>)
    ELSE LET s == Low(a) + Low(b) + c
         IN  <<s % Base>> \o MagAddC(Rest(a), Rest(b), s \div Base)

MagAdd(a, b) == Norm(MagAddC(a, b, 0))

\* a - b for a >= b
RECURSIVE MagSubB(_, _, _)
MagSubB(a, b, borrow) ==
    IF a = <<>> THEN <<>>
    ELSE LET d == Low(a) - Low(b) - borrow
         IN  IF d < 0 THEN <<d + Base>> \o MagSubB(Rest(a), Rest(b), 1)
             ELSE <<d>> \o MagSubB(Rest(a), Rest(b), 0)

MagSub(a, b) == Norm(MagSubB(a, b, 0))

RECURSIVE MagMulDigit(_, _, _)
MagMulDigit(a, d, c) ==
    IF a = <<>> THEN (IF c = 0 THEN <<>> ELSE <<c>>)
    ELSE LET p == Head(a) * d + c
         IN  <<p % Base>> \o MagMulDigit(Tail(a), d, p \div Base)

RECURSIVE MagMul(_, _)
MagMul(a, b) ==
    IF a = <<>> \/ b = <<>> THEN <<>>
    ELSE Norm(MagAddC(MagMulDigit(a, Head(b), 0),
                      <<0>> \o MagMul(a, Tail(b)), 0))

RECURSIVE MagLess(_, _)
MagLess(a, b) ==
    IF Len(a) # Len(b) THEN Len(a) < Len(b)
    ELSE IF a = <<>> THEN FALSE
    ELSE IF a[Len(a)] # b[Len(b)] THEN a[Len(a)] < b[Len(b)]
    ELSE MagLess(SubSeq(a, 1, Len(a) - 1), SubSeq(b, 1, Len(b) - 1))

-----------------------------------------------------------------------------
(* Python int: sign and magnitude; zero is never negative.                 *)

PyInt(neg, mag) == [neg |-> neg /\ mag # <<>>, mag |-> mag]

IntOf(n) == IF n < 0 THEN PyInt(TRUE, MagOfNat(-n)) ELSE PyInt(FALSE, MagOfNat(n))

IntMul(x, y) == PyInt(x.neg # y.neg, MagMul(x.mag, y.mag))

IntAdd(x, y) ==
    IF x.neg = y.neg THEN PyInt(x.neg, MagAdd(x.mag, y.mag))
    ELSE IF MagLess(x.mag, y.mag) THEN PyInt(y.neg, MagSub(y.mag, x.mag))
    ELSE PyInt(x.neg, MagSub(x.mag, y.mag))

IntLess(x, y) ==
    IF x.neg # y.neg THEN x.neg
    ELSE IF x.neg THEN MagLess(y.mag, x.mag)
    ELSE MagLess(x.mag, y.mag)

IntMin(x, y) == IF IntLess(y, x) THEN y ELSE x

IntIsNonNegative(x) == ~x.neg

-----------------------------------------------------------------------------
(* numpy int64: eight base-256 digits, two's complement.                   *)

Int64Digits == 8

RECURSIVE Pad(_, _)
Pad(m, n) == IF Len(m) >= n THEN SubSeq(m, 1, n) ELSE Pad(m \o <<0>>, n)

\* np.array(seq) for Python ints in the int64 range: the value's bit pattern
Int64OfNat(n) == Pad(MagOfNat(n), Int64Digits)

\* the int64 multiplication np.prod performs: the low 64 bits of the product
Int64Mul(a, b) == Pad(MagMul(Norm(a), Norm(b)), Int64Digits)

TwoTo64 == [i \in 1..(Int64Digits + 1) |-> IF i = Int64Digits + 1 THEN 1 ELSE 0]

\* int(np.int64): the signed value of the bit pattern
IntOfInt64(bits) ==
    IF bits[Int64Digits] >= Base \div 2
    THEN PyInt(TRUE, MagSub(TwoTo64, Norm(bits)))
    ELSE PyInt(FALSE, Norm(bits))

-----------------------------------------------------------------------------
(* What a call returned or raised.                                         *)

Zero == PyInt(FALSE, <<>>)

NoOutcome == [op |-> "none", kind |-> "none", value |-> Zero, error |-> "none"]

Return(op, v) == [op |-> op, kind |-> "return", value |-> v, error |-> "none"]

Raise(op, e) == [op |-> op, kind |-> "raise", value |-> Zero, error |-> e]

-----------------------------------------------------------------------------
(* calculate_total_cells_in_array                                          *)

\* np.prod over an int64 array: left-to-right int64 multiplication, no
\* overflow check.  np.array([]) is a float64 array whose product is 1.0,
\* and int(1.0) = 1, the value the fold starts from.
RECURSIVE NpProd(_, _)
NpProd(acc, seq) ==
    IF seq = <<>> THEN acc
    ELSE NpProd(Int64Mul(acc, Int64OfNat(Head(seq))), Tail(seq))

calculate_total_cells_in_array(seq) == IntOfInt64(NpProd(Int64OfNat(1), seq))

-----------------------------------------------------------------------------
(* check_memory                                                            *)

array_size_bytes(shp, isize) ==
    IntMul(IntOf(isize), calculate_total_cells_in_array(shp))

current_limit(avail, swap) == IntAdd(IntOf(avail), IntOf(swap))

limit(configured, avail, swap) ==
    IntMin(IntOf(configured), current_limit(avail, swap))

\* convert_size_to_human (lines 82, 86) only renders the sizes for the error
\* message; it is an external formatter, taken to return a string for every
\* byte count.
check_memory(shp, isize, configured, avail, swap) ==
    IF IntLess(limit(configured, avail, swap), array_size_bytes(shp, isize))
    THEN Raise("check_memory", "DekerMemoryError")
    ELSE Return("check_memory", Zero)

-----------------------------------------------------------------------------
(* The memory guard called once on inputs drawn from bounded sets.         *)

MaxDims == 3

Extents == {0, 3, 1000, 65536, 1073741824, 49477, 384773, 968973220}

Shapes == UNION {[1..n -> Extents] : n \in 0..MaxDims}

ItemSizes == {1, 8}

ConfiguredLimits == {7000000, 8000000, 9000000}

AvailableValues == {0, 4000000, 1000000000}

SwapValues == {0, 4000000}

NoCallers == <<>>

IdleOthers ==
    /\ memory_limit = [type |-> "int", int |-> 0, str |-> <<>>]
    /\ calls = <<>>
    /\ callers = NoCallers
    /\ atomic = FALSE

Init ==
    /\ pc = "call"
    /\ shape \in Shapes
    /\ itemsize \in ItemSizes
    /\ mem_limit_from_settings \in ConfiguredLimits
    /\ availableRAM \in AvailableValues
    /\ freeSwap \in SwapValues
    /\ outcome = NoOutcome
    /\ IdleOthers

CalculateTotalCellsCall ==
    /\ pc = "call"
    /\ pc' = "done"
    /\ outcome' = Return("calculate_total_cells_in_array",
                         calculate_total_cells_in_array(shape))
    /\ UNCHANGED <<shape, itemsize, mem_limit_from_settings, availableRAM,
                   freeSwap, memory_limit, calls, callers, atomic>>

CheckMemoryCall ==
    /\ pc = "call"
    /\ pc' = "done"
    /\ outcome' = check_memory(shape, itemsize, mem_limit_from_settings,
                               availableRAM, freeSwap)
    /\ UNCHANGED <<shape, itemsize, mem_limit_from_settings, availableRAM,
                   freeSwap, memory_limit, calls, callers, atomic>>

Next == CalculateTotalCellsCall \/ CheckMemoryCall

Spec == Init /\ [][Next]_vars

-----------------------------------------------------------------------------
(* The mathematical quantities the guard is specified against.             *)

RECURSIVE Product(_)
Product(seq) ==
    IF seq = <<>> THEN <<1>> ELSE MagMul(MagOfNat(Head(seq)), Product(Tail(seq)))

totalCells(shp) == PyInt(FALSE, Product(shp))

requiredBytes(shp, isize) == IntMul(totalCells(shp), IntOf(isize))

Int64Max == PyInt(FALSE, <<255, 255, 255, 255, 255, 255, 255, 127>>)

FitsInt64(shp) == ~IntLess(Int64Max, totalCells(shp))

Done(op) == pc = "done" /\ outcome.op = op

-----------------------------------------------------------------------------
(* Python strings are sequences of one-character strings.                  *)

DigitValue ==
    "0" :> 0 @@ "1" :> 1 @@ "2" :> 2 @@ "3" :> 3 @@ "4" :> 4 @@
    "5" :> 5 @@ "6" :> 6 @@ "7" :> 7 @@ "8" :> 8 @@ "9" :> 9

IsDigit(c) == c \in DOMAIN DigitValue

\* str.lower() on the characters the model uses
LowerChar(c) ==
    CASE c = "K" -> "k"
      [] c = "M" -> "m"
      [] c = "G" -> "g"
      [] c = "X" -> "x"
      [] OTHER -> c

Lower(s) == [i \in 1..Len(s) |-> LowerChar(s[i])]

RECURSIVE Strip(_)
Strip(s) ==
    IF s = <<>> THEN s
    ELSE IF Head(s) = " " THEN Strip(Tail(s))
    ELSE IF s[Len(s)] = " " THEN Strip(SubSeq(s, 1, Len(s) - 1))
    ELSE s

\* the digits part of an int literal: digits, single underscores between them
IsDigitsBody(b) ==
    /\ b # <<>>
    /\ IsDigit(b[1])
    /\ IsDigit(b[Len(b)])
    /\ \A i \in 1..Len(b) : IsDigit(b[i]) \/ b[i] = "_"
    /\ \A i \in 1..(Len(b) - 1) : ~(b[i] = "_" /\ b[i + 1] = "_")

RECURSIVE DecimalValue(_, _)
DecimalValue(acc, b) ==
    IF b = <<>> THEN acc
    ELSE IF Head(b) = "_" THEN DecimalValue(acc, Tail(b))
    ELSE DecimalValue(MagAdd(MagMul(acc, MagOfNat(10)), MagOfNat(DigitValue[Head(b)])),
                      Tail(b))

\* int(str), base 10: surrounding whitespace stripped, an optional sign, then
\* the digits.  ok = FALSE stands for ValueError.
int(s) ==
    LET t == Strip(s)
        signed == t # <<>> /\ Head(t) \in {"+", "-"}
        body == IF signed THEN Tail(t) ELSE t
    IN  IF IsDigitsBody(body)
        THEN [ok |-> TRUE,
              value |-> PyInt(signed /\ Head(t) = "-", DecimalValue(<<>>, body))]
        ELSE [ok |-> FALSE, value |-> Zero]

-----------------------------------------------------------------------------
(* convert_human_memory_to_bytes                                           *)

bytes_ == IntOf(1024)

\* faulty variant of mapping: decimal (SI) multipliers in place of the binary ones
mapping_decimal(div) ==
    CASE div = "k" -> [ok |-> TRUE, value |-> IntOf(1000)]
      [] div = "m" -> [ok |-> TRUE, value |-> IntOf(1000000)]
      [] div = "g" -> [ok |-> TRUE, value |-> IntOf(1000000000)]
      [] OTHER -> [ok |-> FALSE, value |-> Zero]

\* mapping[div]; ok = FALSE stands for KeyError
mapping(div) ==
    CASE div = "k" -> [ok |-> TRUE, value |-> bytes_]
      [] div = "m" -> [ok |-> TRUE, value |-> IntMul(bytes_, bytes_)]
      [] div = "g" -> [ok |-> TRUE, value |-> IntMul(bytes_, IntMul(bytes_, bytes_))]
      [] OTHER -> [ok |-> FALSE, value |-> Zero]

\* line 62, evaluated outside any try block: "".lower()[-1] is an IndexError
SplitUnit(s) ==
    IF s = <<>> THEN [ok |-> FALSE, limit |-> <<>>, div |-> ""]
    ELSE [ok |-> TRUE, limit |-> SubSeq(s, 1, Len(s) - 1), div |-> Lower(s)[Len(s)]]

\* lines 63-68: any exception of the try block becomes DekerValidationError
ScaleByUnit(split) ==
    LET int_limit == int(split.limit)
        unit == mapping(split.div)
    IN  IF int_limit.ok /\ unit.ok
        THEN Return("convert_human_memory_to_bytes", IntMul(int_limit.value, unit.value))
        ELSE Raise("convert_human_memory_to_bytes", "DekerValidationError")

convert_human_memory_to_bytes(arg) ==
    IF arg.type \notin {"int", "str"}
    THEN Raise("convert_human_memory_to_bytes", "DekerValidationError")
    ELSE IF arg.type = "int"
    THEN Return("convert_human_memory_to_bytes", IntOf(arg.int))
    ELSE IF int(arg.str).ok
    THEN Return("convert_human_memory_to_bytes", int(arg.str).value)
    ELSE IF ~SplitUnit(arg.str).ok
    THEN Raise("convert_human_memory_to_bytes", "IndexError")
    ELSE ScaleByUnit(SplitUnit(arg.str))

-----------------------------------------------------------------------------
(* convert_human_memory_to_bytes called once on an input from a bounded set *)

MaxStrLen == 3

Alphabet == {"0", "7", "-", "+", "_", " ", "k", "M", "g", "x"}

ShortStrings == UNION {[1..n -> Alphabet] : n \in 0..MaxStrLen}

ExampleStrings ==
    { <<"8", "G">>, <<"8", "g">>, <<"5", "1", "2", "m">>, <<"1", "0", "2", "4">>,
      <<"a", "b", "c">>, <<"8", "x">>, <<"k">>, <<>>, <<"-", "5">>,
      <<"-", "1", "k">>, <<"3", ".", "5">>, <<"1", "_", "0", "K">> }

IntArguments == {-5, 0, 1, 1024, 2147483647}

\* values that are neither int nor str: 3.5, None, b"8G"
OtherTypes == {"float", "NoneType", "bytes"}

Arguments ==
    {[type |-> "int", int |-> n, str |-> <<>>] : n \in IntArguments}
    \cup {[type |-> "str", int |-> 0, str |-> s] : s \in ShortStrings \cup ExampleStrings}
    \cup {[type |-> t, int |-> 0, str |-> <<>>] : t \in OtherTypes}

InitConvert ==
    /\ pc = "call"
    /\ memory_limit \in Arguments
    /\ outcome = NoOutcome
    /\ shape = <<>>
    /\ itemsize = 1
    /\ mem_limit_from_settings = 0
    /\ availableRAM = 0
    /\ freeSwap = 0
    /\ calls = <<>>
    /\ callers = NoCallers
    /\ atomic = FALSE

ConvertCall ==
    /\ pc = "call"
    /\ pc' = "done"
    /\ outcome' = convert_human_memory_to_bytes(memory_limit)
    /\ UNCHANGED <<shape, itemsize, mem_limit_from_settings, availableRAM,
                   freeSwap, memory_limit, calls, callers, atomic>>

NextConvert == ConvertCall

SpecConvert == InitConvert /\ [][NextConvert]_vars

-----------------------------------------------------------------------------
(* generate_uid                                                            *)

\* deker.types.private.enums.ArrayType: exactly two members
ArrayTypeMembers == {"array", "varray"}

\* ArrayType.<member>.value, the member's string label
ArrayTypeValue(member) ==
    IF member = "array" THEN <<"a", "r", "r", "a", "y">>
    ELSE <<"v", "a", "r", "r", "a", "y">>

isinstance_ArrayType(arg) == arg.cls = "ArrayType" /\ arg.member \in ArrayTypeMembers

\* faulty variant of namespace: one namespace for both kinds
namespace_shared(array_type) == "NAMESPACE_OID"

namespace(array_type) ==
    IF array_type.member = "array" THEN "NAMESPACE_X500" ELSE "NAMESPACE_OID"

SixDigits(n) ==
    LET d(k) == CHOOSE c \in DOMAIN DigitValue : DigitValue[c] = (n \div k) % 10
    IN  <<d(100000), d(10000), d(1000), d(100), d(10), d(1)>>

\* faulty variant of isoformat: the instant rendered to whole seconds
isoformat_seconds(now) ==
    LET sec == CHOOSE c \in DOMAIN DigitValue : DigitValue[c] = now.second
    IN  <<"T", "0", sec>> \o <<"+", "0", "0", ":", "0", "0">>

\* datetime.isoformat() of an aware UTC datetime: the fraction is written
\* only when the microsecond field is not zero
isoformat(now) ==
    LET sec == CHOOSE c \in DOMAIN DigitValue : DigitValue[c] = now.second
    IN  <<"T", "0", sec>>
        \o (IF now.microsecond = 0 THEN <<>> ELSE <<".">> \o SixDigits(now.microsecond))
        \o <<"+", "0", "0", ":", "0", "0">>

\* str(uuid.uuid5(namespace, name)): the name-based hash, taken as injective
\* on (namespace, name)
uuid5(ns, name) == [namespace |-> ns, name |-> name]

NoUid == [namespace |-> "none", name |-> <<>>]

Returned(uid) == [kind |-> "return", uid |-> uid, error |-> "none"]

Raised(e) == [kind |-> "raise", uid |-> NoUid, error |-> e]

generate_uid(array_type, now) ==
    IF ~isinstance_ArrayType(array_type)
    THEN Raised("TypeError")
    ELSE Returned(uuid5(namespace(array_type),
                        ArrayTypeValue(array_type.member) \o isoformat(now)))

-----------------------------------------------------------------------------
(* get_id                                                                  *)

\* method resolution order of the classes of the objects passed to get_id;
\* deker.arrays.Array and deker.arrays.VArray are unrelated classes
Mro(cls) ==
    CASE cls = "Array" -> <<"Array", "object">>
      [] cls = "VArray" -> <<"VArray", "object">>
      [] cls = "ArraySubclass" -> <<"ArraySubclass", "Array", "object">>
      [] cls = "VArraySubclass" -> <<"VArraySubclass", "VArray", "object">>
      [] OTHER -> <<cls, "object">>

\* the singledispatch registry of lines 115-137
RegisteredClasses == {"Array", "VArray", "object"}

\* functools.singledispatch: the implementation registered for the first
\* class of the argument's MRO that has one
Dispatch(cls) ==
    LET mro == Mro(cls)
        i == CHOOSE k \in 1..Len(mro) :
                 /\ mro[k] \in RegisteredClasses
                 /\ \A j \in 1..(k - 1) : mro[j] \notin RegisteredClasses
    IN  mro[i]

array_id(now) == generate_uid([cls |-> "ArrayType", member |-> "array"], now)

\* faulty variant of varray_id: the body of array_id copied unchanged
varray_id_copied(now) == generate_uid([cls |-> "ArrayType", member |-> "array"], now)

varray_id(now) == generate_uid([cls |-> "ArrayType", member |-> "varray"], now)

get_id(obj, now) ==
    CASE Dispatch(obj.cls) = "Array" -> array_id(now)
      [] Dispatch(obj.cls) = "VArray" -> varray_id(now)
      [] OTHER -> Raised("TypeError")

-----------------------------------------------------------------------------
(* The identity generator called up to MaxCalls times; every call reads    *)
(* the clock (get_utc) afresh.                                             *)

MaxCalls == 2

Instants == [second : {0, 1}, microsecond : {0, 1}]

\* arguments of generate_uid: the two members and values of other types
UidArguments ==
    {[cls |-> "ArrayType", member |-> m] : m \in ArrayTypeMembers}
    \cup {[cls |-> "str", member |-> "array"], [cls |-> "str", member |-> "varray"],
          [cls |-> "NoneType", member |-> "none"]}

\* arguments of get_id
Objects ==
    {[cls |-> c, member |-> "none"] :
        c \in {"Array", "VArray", "ArraySubclass", "VArraySubclass", "int"}}
    \cup {[cls |-> "ArrayType", member |-> "array"]}

InitIdentity ==
    /\ calls = <<>>
    /\ pc = "call"
    /\ outcome = NoOutcome
    /\ shape = <<>>
    /\ itemsize = 1
    /\ mem_limit_from_settings = 0
    /\ availableRAM = 0
    /\ freeSwap = 0
    /\ memory_limit = [type |-> "int", int |-> 0, str |-> <<>>]
    /\ callers = NoCallers
    /\ atomic = FALSE

GenerateUidCall ==
    /\ Len(calls) < MaxCalls
    /\ \E arg \in UidArguments, now \in Instants :
           calls' = Append(calls, [fn |-> "generate_uid", arg |-> arg, now |-> now,
                                   result |-> generate_uid(arg, now)])
    /\ UNCHANGED <<pc, shape, itemsize, mem_limit_from_settings, availableRAM,
                   freeSwap, outcome, memory_limit, callers, atomic>>

GetIdCall ==
    /\ Len(calls) < MaxCalls
    /\ \E obj \in Objects, now \in Instants :
           calls' = Append(calls, [fn |-> "get_id", arg |-> obj, now |-> now,
                                   result |-> get_id(obj, now)])
    /\ UNCHANGED <<pc, shape, itemsize, mem_limit_from_settings, availableRAM,
                   freeSwap, outcome, memory_limit, callers, atomic>>

NextIdentity == GenerateUidCall \/ GetIdCall

SpecIdentity == InitIdentity /\ [][NextIdentity]_vars

-----------------------------------------------------------------------------
(* Two callers that each call check_memory and then allocate what they     *)
(* asked for, against the same RAM and swap.                               *)

Callers == {1, 2}

RequestShapes == {<<0>>, <<2>>, <<4>>, <<6>>, <<49477, 384773, 968973220>>}

RECURSIVE NatOfMag(_)
NatOfMag(m) == IF m = <<>> THEN 0 ELSE Head(m) + Base * NatOfMag(Tail(m))

\* the bytes the caller's array really takes
Bytes(p) == requiredBytes(callers[p].shape, itemsize)

Available == availableRAM + freeSwap

Fits(p) == ~IntLess(IntOf(Available), Bytes(p))

Passes(p) ==
    check_memory(callers[p].shape, itemsize, mem_limit_from_settings,
                 availableRAM, freeSwap).kind = "return"

InitCallers ==
    /\ callers \in [Callers -> [pc : {"start"}, shape : RequestShapes]]
    /\ atomic \in BOOLEAN
    /\ itemsize \in {1, 2}
    /\ mem_limit_from_settings \in {4, 8, 16}
    /\ availableRAM \in {0, 4, 8}
    /\ freeSwap \in {0, 4}
    /\ pc = "call"
    /\ outcome = NoOutcome
    /\ shape = <<>>
    /\ memory_limit = [type |-> "int", int |-> 0, str |-> <<>>]
    /\ calls = <<>>

\* the caller's allocation: it takes RAM first, then swap, and fails when
\* the two together do not hold the request
Allocation(p) ==
    IF Fits(p)
    THEN LET n == NatOfMag(Bytes(p).mag)
         IN  /\ callers' = [callers EXCEPT ![p].pc = "allocated"]
             /\ availableRAM' = IF n <= availableRAM THEN availableRAM - n ELSE 0
             /\ freeSwap' = IF n <= availableRAM
                            THEN freeSwap ELSE freeSwap - (n - availableRAM)
    ELSE /\ callers' = [callers EXCEPT ![p].pc = "failed"]
         /\ UNCHANGED <<availableRAM, freeSwap>>

Check(p) ==
    /\ ~atomic
    /\ callers[p].pc = "start"
    /\ callers' = [callers EXCEPT ![p].pc = IF Passes(p) THEN "checked" ELSE "rejected"]
    /\ UNCHANGED <<pc, shape, itemsize, mem_limit_from_settings, availableRAM,
                   freeSwap, outcome, memory_limit, calls, atomic>>

Allocate(p) ==
    /\ ~atomic
    /\ callers[p].pc = "checked"
    /\ Allocation(p)
    /\ UNCHANGED <<pc, shape, itemsize, mem_limit_from_settings, outcome,
                   memory_limit, calls, atomic>>

CheckAndAllocate(p) ==
    /\ atomic
    /\ callers[p].pc = "start"
    /\ IF Passes(p)
       THEN Allocation(p)
       ELSE /\ callers' = [callers EXCEPT ![p].pc = "rejected"]
            /\ UNCHANGED <<availableRAM, freeSwap>>
    /\ UNCHANGED <<pc, shape, itemsize, mem_limit_from_settings, outcome,
                   memory_limit, calls, atomic>>

NextCallers == \E p \in Callers : Check(p) \/ Allocate(p) \/ CheckAndAllocate(p)

SpecCallers == InitCallers /\ [][NextCallers]_vars

-----------------------------------------------------------------------------
(* Properties of the memory guard (specification Spec).                    *)

MemoryErrorRaised == outcome.kind = "raise" /\ outcome.error = "DekerMemoryError"

ReturnedNormally == outcome.kind = "return"

\* min(configuredLimit, availableRAM + freeSwap), written out
MinOfConfiguredAndPhysical ==
    LET configured == IntOf(mem_limit_from_settings)
        physical == IntAdd(IntOf(availableRAM), IntOf(freeSwap))
    IN  IF IntLess(physical, configured) THEN physical ELSE configured

TooLarge == IntLess(MinOfConfiguredAndPhysical, requiredBytes(shape, itemsize))

GuardExactWithinInt64 ==
    Done("check_memory") /\ FitsInt64(shape) =>
        /\ MemoryErrorRaised <=> TooLarge
        /\ ReturnedNormally <=> ~TooLarge

\* C5: calculate_total_cells_in_array returns the product of the elements of
\* every sequence of non-negative integers (1 for the empty one) and raises
\* nothing.
C5_ReturnsProduct ==
    Done("calculate_total_cells_in_array") =>
        outcome.kind = "return" /\ outcome.value = totalCells(shape)

\* Within the int64 range the returned value is the product.
ProductExactWithinInt64 ==
    Done("calculate_total_cells_in_array") /\ FitsInt64(shape) =>
        outcome.kind = "return" /\ outcome.value = totalCells(shape)

\* C6: a product outside the 64-bit range makes
\* calculate_total_cells_in_array raise an overflow error instead of
\* returning a wrapped value, so check_memory admits no request whose
\* required bytes exceed the effective limit.
C6_OverflowFailsFast ==
    /\ Done("calculate_total_cells_in_array") /\ ~FitsInt64(shape) =>
           outcome.kind = "raise"
    /\ Done("check_memory") /\ ReturnedNormally => ~TooLarge

-----------------------------------------------------------------------------
(* Properties of convert_human_memory_to_bytes (specification SpecConvert). *)

Converted == Done("convert_human_memory_to_bytes")

Units == {"k", "m", "g"}

LastChar(s) == s[Len(s)]

Prefix(s) == SubSeq(s, 1, Len(s) - 1)

IsIntegerString(arg) == arg.type = "str" /\ int(arg.str).ok

IsNumberWithUnit(arg) ==
    /\ arg.type = "str"
    /\ ~int(arg.str).ok
    /\ arg.str # <<>>
    /\ LowerChar(LastChar(arg.str)) \in Units
    /\ int(Prefix(arg.str)).ok

\* n x 1024, n x 1024^2, n x 1024^3
RECURSIVE TimesKibi(_, _)
TimesKibi(n, times) ==
    IF times = 0 THEN n ELSE TimesKibi(IntMul(n, IntOf(1024)), times - 1)

UnitExponent(c) == CASE c = "k" -> 1 [] c = "m" -> 2 [] c = "g" -> 3

\* C2: an integer is returned unchanged, an all-integer string gives that
\* integer, and an integer prefix n followed by k, m or g in either case
\* gives n x 1024, n x 1024^2 or n x 1024^3.
C2_ConvertsUnits ==
    Converted =>
        /\ memory_limit.type = "int" =>
               outcome.kind = "return" /\ outcome.value = IntOf(memory_limit.int)
        /\ IsIntegerString(memory_limit) =>
               outcome.kind = "return" /\ outcome.value = int(memory_limit.str).value
        /\ IsNumberWithUnit(memory_limit) =>
               /\ outcome.kind = "return"
               /\ outcome.value =
                      TimesKibi(int(Prefix(memory_limit.str)).value,
                                UnitExponent(LowerChar(LastChar(memory_limit.str))))

\* "8G" has been converted to 8 x 1024^3 = 2^33
C2_Witness ==
    /\ Converted
    /\ memory_limit.type = "str"
    /\ memory_limit.str = <<"8", "G">>
    /\ outcome.kind = "return"
    /\ outcome.value = [neg |-> FALSE, mag |-> <<0, 0, 0, 0, 2>>]

\* C3: every input that is not an integer, an all-integer string or an
\* integer prefix with a unit fails with the validation error and with no
\* other error; none returns a value.
C3_InvalidInputIsValidationError ==
    Converted
    /\ memory_limit.type # "int"
    /\ ~IsIntegerString(memory_limit)
    /\ ~IsNumberWithUnit(memory_limit)
    => outcome.kind = "raise" /\ outcome.error = "DekerValidationError"

\* Every invalid input other than the empty string fails with the
\* validation error.
NonEmptyInvalidInputIsValidationError ==
    Converted
    /\ memory_limit.type # "int"
    /\ ~IsIntegerString(memory_limit)
    /\ ~IsNumberWithUnit(memory_limit)
    /\ ~(memory_limit.type = "str" /\ memory_limit.str = <<>>)
    => outcome.kind = "raise" /\ outcome.error = "DekerValidationError"

\* C4: whenever a value is returned it is a non-negative byte count.
C4_ResultIsNonNegative ==
    Converted /\ outcome.kind = "return" => IntIsNonNegative(outcome.value)

-----------------------------------------------------------------------------
(* Properties of the identity generator (specification SpecIdentity).      *)

CallsOf(fn) == {i \in 1..Len(calls) : calls[i].fn = fn}

IsKind(arg) == arg.cls = "ArrayType" /\ arg.member \in {"array", "varray"}

ReturnedUid(i) == calls[i].result.kind = "return"

Label(kind) ==
    IF kind = "array" THEN <<"a", "r", "r", "a", "y">>
    ELSE <<"v", "a", "r", "r", "a", "y">>

StartsWith(s, prefix) ==
    Len(s) >= Len(prefix) /\ SubSeq(s, 1, Len(prefix)) = prefix

\* a complete identifier: a namespace and a name that is the kind's label
\* followed by a rendered instant
CompleteFor(uid, kind) ==
    /\ uid.namespace \in {"NAMESPACE_X500", "NAMESPACE_OID"}
    /\ StartsWith(uid.name, Label(kind))
    /\ Len(uid.name) > Len(Label(kind))

\* C7: generate_uid returns a complete identifier for each of the two kinds,
\* raises TypeError for every other argument, and the two kinds use two
\* distinct namespaces, one per kind.
C7_GenerateUidTotalOnKinds ==
    /\ \A i \in CallsOf("generate_uid") :
           IF IsKind(calls[i].arg)
           THEN ReturnedUid(i) /\ CompleteFor(calls[i].result.uid, calls[i].arg.member)
           ELSE calls[i].result = Raised("TypeError")
    /\ \A i, j \in CallsOf("generate_uid") :
           ReturnedUid(i) /\ ReturnedUid(j) =>
               (calls[i].arg.member = calls[j].arg.member
                    <=> calls[i].result.uid.namespace = calls[j].result.uid.namespace)

\* both kinds have been given an identifier, in different namespaces
C7_Witness ==
    \E i, j \in CallsOf("generate_uid") :
        /\ calls[i].arg = [cls |-> "ArrayType", member |-> "array"]
        /\ calls[j].arg = [cls |-> "ArrayType", member |-> "varray"]
        /\ ReturnedUid(i) /\ ReturnedUid(j)
        /\ calls[i].result.uid.namespace # calls[j].result.uid.namespace

\* isinstance(obj, cls)
IsInstance(obj, cls) == \E k \in 1..Len(Mro(obj.cls)) : Mro(obj.cls)[k] = cls

\* C8: get_id gives an Array object an identifier of the array kind, a
\* VArray object one of the varray kind, and raises TypeError for every
\* other object; no object gets the other kind's namespace.
C8_GetIdByObjectType ==
    \A i \in CallsOf("get_id") :
        LET obj == calls[i].arg
            uid == calls[i].result.uid
        IN  /\ IsInstance(obj, "Array") =>
                   /\ ReturnedUid(i)
                   /\ uid.namespace = "NAMESPACE_X500"
                   /\ CompleteFor(uid, "array")
            /\ IsInstance(obj, "VArray") =>
                   /\ ReturnedUid(i)
                   /\ uid.namespace = "NAMESPACE_OID"
                   /\ CompleteFor(uid, "varray")
            /\ ~IsInstance(obj, "Array") /\ ~IsInstance(obj, "VArray") =>
                   calls[i].result = Raised("TypeError")

\* a VArray and an object of another type have both been passed to get_id
C8_Witness ==
    \E i, j \in CallsOf("get_id") :
        /\ calls[i].arg.cls = "VArray"
        /\ ReturnedUid(i)
        /\ calls[i].result.uid.namespace = "NAMESPACE_OID"
        /\ calls[j].arg.cls = "int"
        /\ calls[j].result.kind = "raise"

\* C10: the identifier is a function of (kind, instant): same kind and same
\* clock value give the same identifier; with the hash injective, the same
\* kind gives the same identifier only for identical clock values; and
\* different kinds at one instant hash different (namespace, name) inputs.
C10_UidDeterminedByKindAndInstant ==
    \A i, j \in CallsOf("generate_uid") :
        ReturnedUid(i) /\ ReturnedUid(j) =>
            LET sameKind == calls[i].arg.member = calls[j].arg.member
                sameClock == calls[i].now = calls[j].now
                sameUid == calls[i].result.uid = calls[j].result.uid
            IN  /\ sameKind /\ sameClock => sameUid
                /\ sameKind /\ sameUid => sameClock
                /\ ~sameKind /\ sameClock => ~sameUid

\* two calls for one kind whose clock values differ only in the microsecond
\* have returned different identifiers
C10_Witness ==
    \E i, j \in CallsOf("generate_uid") :
        /\ i # j
        /\ ReturnedUid(i) /\ ReturnedUid(j)
        /\ calls[i].arg.member = calls[j].arg.member
        /\ calls[i].now.second = calls[j].now.second
        /\ calls[i].now.microsecond # calls[j].now.microsecond
        /\ calls[i].result.uid # calls[j].result.uid

-----------------------------------------------------------------------------
(* Properties of the callers (specification SpecCallers).                  *)

CheckReturns ==
    \E p \in Callers :
        callers[p].pc = "start" /\ callers'[p].pc \in {"checked", "rejected"}

\* C9: check_memory leaves available RAM, free swap and the configured
\* limit as they were, whether it passes or fails; and when check and
\* allocation are one atomic step, no allocation that follows a passing
\* check fails for lack of memory.
C9_NoReservationAtomicIsSafe ==
    [][/\ CheckReturns =>
              UNCHANGED <<availableRAM, freeSwap, mem_limit_from_settings>>
       /\ atomic' => \A p \in Callers : callers'[p].pc # "failed"]_vars

\* check_memory changes nothing it reads.
CheckMemoryReservesNothing ==
    [][CheckReturns =>
           UNCHANGED <<availableRAM, freeSwap, mem_limit_from_settings>>]_vars

\* The race: both checks passed, one allocation succeeded, the later failed.
RaceReached ==
    /\ ~atomic
    /\ \E p, q \in Callers :
           /\ callers[p].pc = "allocated"
           /\ callers[q].pc = "failed"
           /\ FitsInt64(callers[q].shape)

\* With check and allocation atomic, requests whose cell count fits int64
\* never fail after a passing check.
AtomicIsSafeWithinInt64 ==
    atomic => \A p \in Callers :
                  FitsInt64(callers[p].shape) => callers[p].pc # "failed"

====
